---- MODULE Spec2Model ----
(***************************************************************************)
(* Model of utils.py: class BatchInference.                                *)
(*                                                                         *)
(* create_input_jsonl builds the request file input.jsonl from the images  *)
(* of a bucket folder and uploads it; start_batch_inference_job checks     *)
(* whether input.jsonl is already in the bucket, builds it when the check  *)
(* finds nothing, and creates the model invocation job.                    *)
(*                                                                         *)
(* The S3 client, the Bedrock client and helpers.list_obj_s3 are           *)
(* collaborators: every call to one of them either returns or raises.      *)
(* Strings the code takes apart (object keys, URIs, base64 text) are       *)
(* sequences of one-character strings; bytes are integers in 0..255.       *)
(***************************************************************************)
EXTENDS Integers, Sequences, FiniteSets, TLC

(* ------------------------------ bounds --------------------------------- *)

\* longest image body, in bytes
MaxImageLen == 3

\* number of method calls the caller makes on one BatchInference object
MaxCalls == 3

(* --------------------------- strings and keys -------------------------- *)

Slash == "/"

\* the literal 'input.jsonl' of lines 65, 126 and 137
InputKey == <<"i","n","p","u","t",".","j","s","o","n","l">>

\* the literal 's3://' of lines 137 and 143
S3Scheme == <<"s","3",":","/","/">>

\* an object that merely shares the prefix: input.jsonl.bak
KeyInputBak == InputKey \o <<".","b","a","k">>

KeyImagesA == <<"i","m","g","/","a",".","j","p","g">>
KeyImagesB == <<"i","m","g","/","b",".","j","p","g">>
KeySubA == <<"i","m","g","/","s","/","a",".","j","p","g">>

ImageKeys == {KeyImagesA, KeyImagesB, KeySubA}

OtherKeys == {InputKey, KeyInputBak}

FolderNames == {<<"i","m","g","/">>, <<"i","m","g","/","s","/">>}

BucketNames == {<<"b","k","t">>}

OutputFolders == {<<"o","u","t","/">>}

JobArns == {"arn:job/1", "arn:job/2"}

\* image bodies: the prefixes of a byte pattern (255, 82, 165, 248, ...), one
\* of every length up to MaxImageLen
PatternByte(i) == (172 + 83 * i) % 256

ImageBody(n) == [i \in 1..n |-> PatternByte(i)]

KeyRank(k) == IF k = KeyImagesA THEN 0 ELSE IF k = KeyImagesB THEN 1 ELSE 2

\* the images of one bucket have lengths that differ: the length of an image
\* is its rank shifted cyclically, and every shift is tried
BodyOf(k, shift) == ImageBody((KeyRank(k) + shift) % (MaxImageLen + 1))

(* ------------------------------ helpers -------------------------------- *)

\* str.startswith
StartsWith(s, p) == Len(p) =< Len(s) /\ SubSeq(s, 1, Len(p)) = p

\* every enumeration order of a finite set
Orderings(S) ==
    {f \in [1..Cardinality(S) -> S] : \A i, j \in 1..Cardinality(S) : f[i] = f[j] => i = j}

\* helpers.list_obj_s3: the keys of the bucket that begin with folder_name,
\* in the order the store reports them (any order).  The set of possible results.
list_obj_s3(keys, folder_name) ==
    Orderings({k \in keys : StartsWith(k, folder_name)})

\* the whole key instead of its last path component
basename_whole(p) == p

\* the first path component instead of the last
basename_first(p) ==
    LET cut == {i \in 1..Len(p) : p[i] = Slash}
    IN  IF cut = {} THEN p
        ELSE SubSeq(p, 1, (CHOOSE i \in cut : \A j \in cut : i =< j) - 1)

\* os.path.basename: p[p.rfind('/') + 1:]
basename(p) ==
    LET cut == {i \in 1..Len(p) : p[i] = Slash}
        rfind == IF cut = {} THEN 0 ELSE CHOOSE i \in cut : \A j \in cut : j =< i
    IN  SubSeq(p, rfind + 1, Len(p))

(* ------------------------------ base64 --------------------------------- *)

B64Alphabet ==
    << "A","B","C","D","E","F","G","H","I","J","K","L","M","N","O","P",
       "Q","R","S","T","U","V","W","X","Y","Z","a","b","c","d","e","f",
       "g","h","i","j","k","l","m","n","o","p","q","r","s","t","u","v",
       "w","x","y","z","0","1","2","3","4","5","6","7","8","9","+","/" >>

B64Pad == "="

B64Char(sextet) == B64Alphabet[sextet + 1]

\* one full group: three bytes to four characters
B64Group3(b1, b2, b3) ==
    LET n == b1 * 65536 + b2 * 256 + b3
    IN  << B64Char(n \div 262144), B64Char((n \div 4096) % 64),
           B64Char((n \div 64) % 64), B64Char(n % 64) >>

\* the last group when two bytes remain: three characters and one pad
B64Group2(b1, b2) ==
    LET n == (b1 * 256 + b2) * 4
    IN  << B64Char(n \div 4096), B64Char((n \div 64) % 64), B64Char(n % 64), B64Pad >>

\* the last group when one byte remains: two characters and two pads
B64Group1(b1) ==
    LET n == b1 * 16
    IN  << B64Char(n \div 64), B64Char(n % 64), B64Pad, B64Pad >>

RECURSIVE b64encode_nopad(_)
\* an encoder that drops the trailing partial group
b64encode_nopad(bytes) ==
    IF Len(bytes) < 3 THEN << >>
    ELSE B64Group3(bytes[1], bytes[2], bytes[3]) \o b64encode_nopad(SubSeq(bytes, 4, Len(bytes)))

RECURSIVE b64encode(_)
\* base64.b64encode(image_binary).decode('utf-8')
b64encode(bytes) ==
    IF Len(bytes) = 0 THEN << >>
    ELSE IF Len(bytes) = 1 THEN B64Group1(bytes[1])
    ELSE IF Len(bytes) = 2 THEN B64Group2(bytes[1], bytes[2])
    ELSE B64Group3(bytes[1], bytes[2], bytes[3]) \o b64encode(SubSeq(bytes, 4, Len(bytes)))

(* --------------------------- request records --------------------------- *)

CreationPrompt == "creation_prompt"

\* lines 28-37
content(image_bytes) ==
    << [type |-> "image",
        source |-> [type |-> "base64", media_type |-> "image/jpeg", data |-> image_bytes]] >>

\* lines 39-52
json_obj(image_filename, image_bytes) ==
    [recordId |-> basename(image_filename),
     modelInput |-> [anthropic_version |-> "bedrock-2023-05-31",
                     max_tokens |-> 1024,
                     system |-> CreationPrompt,
                     messages |-> << [role |-> "user", content |-> content(image_bytes)] >>]]

\* lines 134-139
inputDataConfig(bucket_name) ==
    [s3InputFormat |-> "JSONL", s3Uri |-> S3Scheme \o bucket_name \o <<Slash>> \o InputKey]

\* lines 141-145
outputDataConfig(bucket_name, output_folder) ==
    [s3Uri |-> S3Scheme \o bucket_name \o <<Slash>> \o output_folder]

\* a test that builds the file on every call
input_jsonl_missing_always(input_jsonl_yes_no) == TRUE

\* line 128: not input_jsonl_yes_no
input_jsonl_missing(input_jsonl_yes_no) == input_jsonl_yes_no = << >>

\* an upload under a misspelt key
upload_key_typo == <<"i","n","p","u","t",".","j","s","o","n">>

\* line 65: Key='input.jsonl'
upload_key == InputKey

\* handlers that let the error out, or hide it
on_put_error_raise == "raise"

on_store_error_swallow == "swallow"

on_job_error_swallow == "swallow"

\* lines 61-69: try/except Exception around put_object prints the error
on_put_error == "swallow"

\* lines 18-26: no handler around list_obj_s3 and get_object
on_store_error == "raise"

\* lines 149-155: no handler around create_model_invocation_job
on_job_error == "raise"

(* ------------------------------- state --------------------------------- *)

VARIABLES
    cfg,              \* the fields __init__ sets (lines 105-113)
    store,            \* the bucket: key -> object
    localFile,        \* the file input.jsonl of the working directory
    pc,               \* where the running call stands
    entry,            \* the method the caller invoked
    list_of_images,   \* local of create_input_jsonl (line 18)
    input_json_file,  \* local of create_input_jsonl (line 22)
    fetched,          \* the bodies get_object returned in this call, in order
    calls,            \* the collaborator calls of the running call, in order
    result,           \* how the last call ended
    atCall,           \* what held when the running call began
    history,          \* what the earlier calls did, oldest first
    ncalls,           \* calls made so far
    uploads           \* put_object calls that returned

vars == <<cfg, store, localFile, pc, entry, list_of_images, input_json_file,
          fetched, calls, result, atCall, history, ncalls, uploads>>

NoFile == [exists |-> FALSE, lines |-> << >>]

NoResult == [kind |-> "none", value |-> "none"]

Resting == {"idle", "returned", "raised"}

BytesObject(body) == [kind |-> "bytes", body |-> body, lines |-> << >>]

JsonlObject(lines) == [kind |-> "jsonl", body |-> << >>, lines |-> lines]

Call(op, args, ok, ret) == [op |-> op, args |-> args, ok |-> ok, ret |-> ret]

\* the stores a bucket can hold before the object is used: any images, with
\* or without input.jsonl and input.jsonl.bak
InitialStores ==
    { [k \in ks |-> BytesObject(IF k \in ImageKeys THEN BodyOf(k, shift) ELSE << >>)] :
        ks \in SUBSET (ImageKeys \cup OtherKeys), shift \in 0..MaxImageLen }

Init ==
    /\ cfg \in [bucket_name : BucketNames, folder_name : FolderNames,
                output_folder : OutputFolders]
    /\ store \in InitialStores
    /\ localFile = NoFile
    /\ pc = "idle"
    /\ entry = "none"
    /\ list_of_images = << >>
    /\ input_json_file = << >>
    /\ fetched = << >>
    /\ calls = << >>
    /\ result = NoResult
    /\ atCall = [hadInput |-> FALSE]
    /\ history = << >>
    /\ ncalls = 0
    /\ uploads = 0

PutRaisedNow == \E i \in 1..Len(calls) : calls[i].op = "put_object" /\ ~calls[i].ok

PutOkNow == \E i \in 1..Len(calls) : calls[i].op = "put_object" /\ calls[i].ok

\* the caller invokes a method of the object
BeginCall(method, firstPc) ==
    /\ pc \in Resting
    /\ ncalls < MaxCalls
    /\ pc' = firstPc
    /\ entry' = method
    /\ calls' = << >>
    /\ fetched' = << >>
    /\ list_of_images' = << >>
    /\ input_json_file' = << >>
    /\ result' = NoResult
    /\ atCall' = [hadInput |-> InputKey \in DOMAIN store]
    /\ history' = IF entry = "none" THEN history
                  ELSE Append(history, [entry |-> entry, putRaised |-> PutRaisedNow,
                                        putOk |-> PutOkNow])
    /\ ncalls' = ncalls + 1
    /\ UNCHANGED <<cfg, store, localFile, uploads>>

call_start_batch_inference_job ==
    BeginCall("start_batch_inference_job", "sbj_check")

call_create_input_jsonl ==
    BeginCall("create_input_jsonl", "cij_list")

Raise ==
    /\ pc' = "raised"
    /\ result' = [kind |-> "raise", value |-> "error"]

\* lines 124-132: the existence check and the branch
sbj_check ==
    /\ pc = "sbj_check"
    /\ LET args == [bucket_name |-> cfg.bucket_name, folder_name |-> InputKey]
       IN  \/ /\ calls' = Append(calls, Call("list_obj_s3", args, FALSE, "error"))
              /\ Raise
           \/ /\ \E input_jsonl_yes_no \in list_obj_s3(DOMAIN store, InputKey) :
                    /\ calls' = Append(calls, Call("list_obj_s3", args, TRUE,
                                                   input_jsonl_yes_no))
                    /\ pc' = IF input_jsonl_missing(input_jsonl_yes_no)
                             THEN "cij_list" ELSE "sbj_create"
              /\ UNCHANGED result
    /\ UNCHANGED <<cfg, store, localFile, entry, list_of_images, input_json_file,
                   fetched, atCall, history, ncalls, uploads>>

\* a store error inside create_input_jsonl that is not raised: go on to the
\* file (only a handler that hides the error takes this path)
SkipStoreError ==
    /\ pc' = "cij_write"
    /\ UNCHANGED result

\* lines 18-22: list the source folder
cij_list ==
    /\ pc = "cij_list"
    /\ LET args == [bucket_name |-> cfg.bucket_name, folder_name |-> cfg.folder_name]
       IN  \/ /\ calls' = Append(calls, Call("list_obj_s3", args, FALSE, "error"))
              /\ IF on_store_error = "raise" THEN Raise ELSE SkipStoreError
              /\ UNCHANGED list_of_images
           \/ /\ list_of_images' \in list_obj_s3(DOMAIN store, cfg.folder_name)
              /\ calls' = Append(calls, Call("list_obj_s3", args, TRUE, list_of_images'))
              /\ pc' = IF list_of_images' = << >> THEN "cij_write" ELSE "cij_get"
              /\ UNCHANGED result
    /\ input_json_file' = << >>
    /\ UNCHANGED <<cfg, store, localFile, entry, fetched, atCall, history, ncalls, uploads>>

\* lines 23-53: one iteration of the loop over list_of_images
cij_get ==
    /\ pc = "cij_get"
    /\ LET image_filename == list_of_images[Len(input_json_file) + 1]
           args == [Bucket |-> cfg.bucket_name, Key |-> image_filename]
       IN  \/ /\ calls' = Append(calls, Call("get_object", args, FALSE, "error"))
              /\ IF on_store_error = "raise" THEN Raise ELSE SkipStoreError
              /\ UNCHANGED <<input_json_file, fetched>>
           \/ /\ LET image_binary == store[image_filename].body
                     image_bytes == b64encode(image_binary)
                 IN  /\ calls' = Append(calls, Call("get_object", args, TRUE, image_binary))
                     /\ input_json_file' = Append(input_json_file,
                                                  json_obj(image_filename, image_bytes))
                     /\ fetched' = Append(fetched, image_binary)
              /\ pc' = IF Len(input_json_file') = Len(list_of_images)
                       THEN "cij_write" ELSE "cij_get"
              /\ UNCHANGED result
    /\ UNCHANGED <<cfg, store, localFile, entry, list_of_images, atCall, history,
                   ncalls, uploads>>

\* lines 55-58: write the local copy, one line per record
cij_write ==
    /\ pc = "cij_write"
    /\ localFile' = [exists |-> TRUE, lines |-> input_json_file]
    /\ calls' = Append(calls, Call("open_w", [name |-> InputKey], TRUE, "file"))
    /\ pc' = "cij_put"
    /\ UNCHANGED <<cfg, store, entry, list_of_images, input_json_file, fetched,
                   result, atCall, history, ncalls, uploads>>

\* create_input_jsonl returns None to whoever called it
ReturnFromCreate ==
    IF entry = "start_batch_inference_job"
    THEN /\ pc' = "sbj_create"
         /\ UNCHANGED result
    ELSE /\ pc' = "returned"
         /\ result' = [kind |-> "return", value |-> "None"]

\* lines 60-69: upload the local copy; an error is printed
cij_put ==
    /\ pc = "cij_put"
    /\ LET args == [Bucket |-> cfg.bucket_name, Key |-> upload_key, Body |-> localFile.lines]
       IN  \/ /\ calls' = Append(calls, Call("put_object", args, FALSE, "error"))
              /\ IF on_put_error = "swallow" THEN ReturnFromCreate ELSE Raise
              /\ UNCHANGED <<store, uploads>>
           \/ /\ calls' = Append(calls, Call("put_object", args, TRUE, "ok"))
              /\ store' = [k \in DOMAIN store \cup {args.Key} |->
                             IF k = args.Key THEN JsonlObject(args.Body) ELSE store[k]]
              /\ uploads' = uploads + 1
              /\ ReturnFromCreate
    /\ UNCHANGED <<cfg, localFile, entry, list_of_images, input_json_file, fetched,
                   atCall, history, ncalls>>

\* lines 134-158: create the job and return its ARN
sbj_create ==
    /\ pc = "sbj_create"
    /\ LET args == [jobName |-> "job_name", modelId |-> "model_id",
                    inputDataConfig |-> inputDataConfig(cfg.bucket_name),
                    outputDataConfig |-> outputDataConfig(cfg.bucket_name, cfg.output_folder),
                    roleArn |-> "role_arn"]
       IN  \/ /\ calls' = Append(calls, Call("create_model_invocation_job", args,
                                             FALSE, "error"))
              /\ IF on_job_error = "raise"
                 THEN Raise
                 ELSE /\ pc' = "returned"
                      /\ result' = [kind |-> "return", value |-> "None"]
           \/ /\ \E response \in [jobArn : JobArns] :
                    /\ calls' = Append(calls, Call("create_model_invocation_job", args,
                                                   TRUE, response))
                    /\ result' = [kind |-> "return", value |-> response.jobArn]
              /\ pc' = "returned"
    /\ UNCHANGED <<cfg, store, localFile, entry, list_of_images, input_json_file,
                   fetched, atCall, history, ncalls, uploads>>

Next ==
    \/ call_start_batch_inference_job
    \/ call_create_input_jsonl
    \/ sbj_check
    \/ cij_list
    \/ cij_get
    \/ cij_write
    \/ cij_put
    \/ sbj_create

Spec == Init /\ [][Next]_vars

\* the caller only ever submits jobs
NextSubmit ==
    \/ call_start_batch_inference_job
    \/ sbj_check
    \/ cij_list
    \/ cij_get
    \/ cij_write
    \/ cij_put
    \/ sbj_create

SpecSubmit == Init /\ [][NextSubmit]_vars

(* ----------------------- vocabulary of the claims ----------------------- *)

CreateJob == "create_model_invocation_job"

Ops == [i \in 1..Len(calls) |-> calls[i].op]

Submitting == entry = "start_batch_inference_job"

Finished == pc \in {"returned", "raised"}

InBuild == pc \in {"cij_list", "cij_get", "cij_write", "cij_put"}

LastCall == calls[Len(calls)]

\* a listing of the configured source folder (the listing of line 18)
IsSourceListing(c) == c.op = "list_obj_s3" /\ c.args.folder_name = cfg.folder_name

\* the running call has done nothing that belongs to create_input_jsonl
NoBuildStep ==
    /\ ~InBuild
    /\ \A i \in 1..Len(calls) :
          /\ calls[i].op \notin {"get_object", "open_w", "put_object"}
          /\ ~IsSourceListing(calls[i])

\* the running call has written the local file
Written == \E i \in 1..Len(calls) : calls[i].op = "open_w"

\* the running call saw list_obj_s3 (source folder) or get_object raise
StoreErrorNow ==
    \E i \in 1..Len(calls) :
        /\ ~calls[i].ok
        /\ (IsSourceListing(calls[i]) \/ calls[i].op = "get_object")

JobErrorNow == \E i \in 1..Len(calls) : calls[i].op = CreateJob /\ ~calls[i].ok

RECURSIVE BaseFilename(_)
\* the base filename of a key: what follows its last slash
BaseFilename(key) ==
    IF \A i \in 1..Len(key) : key[i] # Slash THEN key ELSE BaseFilename(Tail(key))

DistinctFilenames ==
    \A i, j \in 1..Len(list_of_images) :
        i # j => BaseFilename(list_of_images[i]) # BaseFilename(list_of_images[j])

B64Index(c) == (CHOOSE i \in 1..64 : B64Alphabet[i] = c) - 1

RECURSIVE B64Decode(_)
\* base64 decoding of padded text, four characters at a time
B64Decode(text) ==
    IF Len(text) < 4 THEN << >>
    ELSE LET i1 == B64Index(text[1])
             i2 == B64Index(text[2])
         IN  IF text[3] = B64Pad
             THEN << (i1 * 64 + i2) \div 16 >>
             ELSE IF text[4] = B64Pad
             THEN LET n == (i1 * 4096 + i2 * 64 + B64Index(text[3])) \div 4
                  IN  << n \div 256, n % 256 >>
             ELSE LET n == i1 * 262144 + i2 * 4096 + B64Index(text[3]) * 64
                           + B64Index(text[4])
                  IN  << n \div 65536, (n \div 256) % 256, n % 256 >>
                      \o B64Decode(SubSeq(text, 5, Len(text)))

RecordData(r) == r.modelInput.messages[1].content[1].source.data

UploadedEarlier == \E h \in 1..Len(history) : history[h].putOk

(* -------------------------------- claims -------------------------------- *)

\* C1: when input.jsonl is in the store as start_batch_inference_job is
\* called, the call takes no step of create_input_jsonl (no listing of the
\* source folder, no get_object, no local write, no put_object): once the
\* existence listing has returned, the only further call is one job creation.
C1_ExistingFileSkipsBuild ==
    (Submitting /\ atCall.hadInput) =>
        /\ NoBuildStep
        /\ (Len(calls) >= 1 /\ calls[1].ok) =>
              \/ pc = "sbj_create" /\ Ops = <<"list_obj_s3">>
              \/ Finished /\ Ops = <<"list_obj_s3", CreateJob>>

\* C1 witness: a submit that found input.jsonl and returned after the
\* existence listing and one job creation
C1_Witness ==
    /\ Submitting
    /\ atCall.hadInput
    /\ pc = "returned"
    /\ Ops = <<"list_obj_s3", CreateJob>>

\* C2: when no object has the key input.jsonl as start_batch_inference_job
\* is called, whatever else the store holds, job creation is preceded in that
\* call by create_input_jsonl (whose first step lists the source folder).
C2_AbsentFileIsBuiltFirst ==
    (Submitting /\ ~atCall.hadInput) =>
        \A i \in 1..Len(calls) :
            calls[i].op = CreateJob => \E j \in 1..(i - 1) : IsSourceListing(calls[j])

\* C3: for a non-empty listing the file written has one record per listed
\* key, in listing order, and record i carries the base filename of key i.
C3_OneRecordPerListedObject ==
    (Written /\ list_of_images # << >>) =>
        /\ Len(localFile.lines) = Len(list_of_images)
        /\ \A i \in 1..Len(list_of_images) :
              localFile.lines[i].recordId = BaseFilename(list_of_images[i])

\* C3 witness: a file written from a listing of at least two keys, one of
\* them in a subfolder
C3_Witness ==
    /\ Written
    /\ Len(list_of_images) >= 2
    /\ \E i \in 1..Len(list_of_images) : list_of_images[i] = KeySubA

\* C4: when put_object raises, create_input_jsonl returns normally; inside
\* start_batch_inference_job the next call is job creation, and when that
\* job creation returns the call returns the jobArn of its response, with
\* input.jsonl absent from the store.
C4_UploadErrorSwallowed ==
    PutRaisedNow =>
        /\ ~Submitting => (pc = "returned" /\ result = [kind |-> "return", value |-> "None"])
        /\ Submitting =>
              /\ InputKey \notin DOMAIN store
              /\ \/ pc = "sbj_create" /\ LastCall.op = "put_object"
                 \/ /\ Finished
                    /\ LastCall.op = CreateJob
                    /\ LastCall.ok =>
                          /\ pc = "returned"
                          /\ result = [kind |-> "return", value |-> LastCall.ret.jobArn]

\* C4 witness: a submit whose upload raised and which returned a job ARN
\* while the store has no input.jsonl
C4_Witness ==
    /\ Submitting
    /\ PutRaisedNow
    /\ pc = "returned"
    /\ result.value \in JobArns
    /\ InputKey \notin DOMAIN store

\* C5: when input.jsonl is absent and no collaborator call fails, the submit
\* writes the local file, puts it under input.jsonl in the configured bucket,
\* then creates exactly one job whose input URI names that bucket and key and
\* whose output URI names the output folder, and returns that job's ARN.
C5_BuildUploadSubmitOrder ==
    (/\ Submitting
     /\ ~atCall.hadInput
     /\ pc = "returned"
     /\ \A i \in 1..Len(calls) : calls[i].ok) =>
        LET n == Len(calls)
        IN  /\ n >= 3
            /\ calls[n - 2].op = "open_w"
            /\ calls[n - 1].op = "put_object"
            /\ calls[n].op = CreateJob
            /\ \A i \in 1..(n - 1) : calls[i].op # CreateJob
            /\ calls[n - 1].args.Bucket = cfg.bucket_name
            /\ calls[n - 1].args.Key = InputKey
            /\ calls[n].args.inputDataConfig.s3Uri =
                  S3Scheme \o calls[n - 1].args.Bucket \o <<Slash>> \o calls[n - 1].args.Key
            /\ calls[n].args.outputDataConfig.s3Uri =
                  S3Scheme \o cfg.bucket_name \o <<Slash>> \o cfg.output_folder
            /\ result = [kind |-> "return", value |-> calls[n].ret.jobArn]

\* C6: when the listing of the source folder or a get_object raises, the
\* call ends with that error, and it has written no local file, put no object
\* and created no job.
C6_StoreErrorPropagates ==
    StoreErrorNow =>
        /\ pc = "raised"
        /\ result.kind = "raise"
        /\ ~LastCall.ok
        /\ \A i \in 1..Len(calls) : calls[i].op \notin {"open_w", "put_object", CreateJob}

\* C6 witness: a submit in which get_object raised after an earlier
\* get_object had returned
C6_Witness ==
    /\ Submitting
    /\ StoreErrorNow
    /\ Len(fetched) >= 1
    /\ pc = "raised"

\* C7: when job creation raises, start_batch_inference_job ends with that
\* error and no job handle, and job creation was attempted once.
C7_JobErrorPropagates ==
    /\ Cardinality({i \in 1..Len(calls) : calls[i].op = CreateJob}) =< 1
    /\ JobErrorNow =>
          /\ pc = "raised"
          /\ result.kind = "raise"
          /\ result.value \notin JobArns
          /\ LastCall.op = CreateJob

\* C7 witness: a submit that built and uploaded the file and whose job
\* creation raised
C7_Witness ==
    /\ JobErrorNow
    /\ PutOkNow
    /\ pc = "raised"

\* C8: when the listed keys have pairwise distinct base filenames, no two
\* records of the written file share a recordId.
C8_UniqueRecordIds ==
    (Written /\ DistinctFilenames) =>
        \A i, j \in 1..Len(localFile.lines) :
            i # j => localFile.lines[i].recordId # localFile.lines[j].recordId

\* C8 witness: a file written from two keys with different base filenames
C8_Witness ==
    /\ Written
    /\ Len(list_of_images) >= 2
    /\ DistinctFilenames

\* C9: base64-decoding the data field of every record gives back the bytes
\* get_object returned for that record's image.
C9_Base64RoundTrip ==
    /\ Len(input_json_file) = Len(fetched)
    /\ \A i \in 1..Len(input_json_file) :
          B64Decode(RecordData(input_json_file[i])) = fetched[i]
    /\ Written =>
          /\ Len(localFile.lines) = Len(fetched)
          /\ \A i \in 1..Len(fetched) :
                B64Decode(RecordData(localFile.lines[i])) = fetched[i]

\* C9 witness: a written file with an image that needs two pad characters
\* and an image that needs one
C9_Witness ==
    /\ Written
    /\ \E i, j \in 1..Len(fetched) :
          /\ Len(fetched[i]) % 3 = 1
          /\ Len(fetched[j]) % 3 = 2

\* C10: over a sequence of submits the request file is uploaded at most
\* once: after an upload that succeeded every later submit takes no step of
\* create_input_jsonl and the stored file stays the one uploaded; after an
\* upload that raised, the next submit whose existence listing returns runs
\* create_input_jsonl again.
C10_UploadedAtMostOnce ==
    /\ uploads =< 1
    /\ UploadedEarlier =>
          /\ NoBuildStep
          /\ InputKey \in DOMAIN store
          /\ store[InputKey] = JsonlObject(localFile.lines)
    /\ (/\ history # << >>
        /\ history[Len(history)].putRaised
        /\ Len(calls) >= 1
        /\ calls[1].ok) =>
          \/ pc = "cij_list" /\ Len(calls) = 1
          \/ Len(calls) >= 2 /\ IsSourceListing(calls[2])

\* C10 witness: the first submit's upload raised, the second submit built and
\* uploaded the file, the third submit went straight to job creation
C10_Witness ==
    /\ Len(history) = 2
    /\ history[1].putRaised
    /\ history[2].putOk
    /\ pc = "returned"
    /\ Ops = <<"list_obj_s3", CreateJob>>

====
